---- MODULE Spec2Model ----
(***************************************************************************)
(* BertRanker (model/bert.py): construction from a hyperparameter dict,    *)
(* the forward pass and the optimizer/scheduler factory.                   *)
(*                                                                         *)
(* Python values: None is the string "None"; a dataset handle is the tuple *)
(* <<class, data_file, split_file, bert_type>> and the None handle is <<>>;*)
(* an optional object (harness state, encoder, last forward call) is a     *)
(* sequence of length 0 or 1.                                              *)
(***************************************************************************)
EXTENDS Integers, Sequences, FiniteSets, TLC

VARIABLES
    hparams,        \* the hyperparameter dict handed to __init__
    phase,          \* "new" | "constructed" | "failed"
    calls,          \* the collaborator calls __init__ made, in order
    error,          \* the exception that left __init__ ([kind |-> "none"] if none)
    harness,        \* what BaseRanker.__init__ received (<<>> before it ran)
    bert,           \* the loaded encoder (<<>> before it is loaded)
    requires_grad,  \* parameter name -> requires_grad
    weights,        \* parameter name -> version of its value
    training,       \* nn.Module.training
    rng,            \* state of torch's global random generator
    nextId,         \* identity of the next object configure_optimizers creates
    ret,            \* last return value of configure_optimizers (<<>> if none)
    live,           \* the optimizers/schedulers the harness keeps stepping
    lastFwd         \* last forward call: its batch, module state and result

vars == <<hparams, phase, calls, error, harness, bert, requires_grad,
          weights, training, rng, nextId, ret, live, lastFwd>>

-----------------------------------------------------------------------------
(* Bounds *)

MaxDim == 2        \* hidden widths 1..MaxDim
MaxWarmup == 2     \* warmup_steps 0..MaxWarmup
MaxSteps == 3      \* training steps taken per run
MaxConfigures == 2 \* calls of configure_optimizers per run
MaxBatch == 2      \* batch sizes 1..MaxBatch
MaxSeqLen == 2     \* sequence lengths 1..MaxSeqLen
MaxEpochs == 2     \* epochs ended per run
RngPeriod == 3     \* states of the random generator

-----------------------------------------------------------------------------
(* Python dict access *)

None == "None"

\* dict.get(k): None for a missing key
Get(h, k) == IF k \in DOMAIN h THEN h[k] ELSE None

\* k in h (h[k] raises KeyError otherwise)
Has(h, k) == k \in DOMAIN h

NoError == [kind |-> "none", line |-> 0]

KeyError(line) == [kind |-> "KeyError", line |-> line]

NoneDs == <<>>

-----------------------------------------------------------------------------
(* Hyperparameter bundles *)

TrainingModes == {"pointwise", "pairwise", "listwise", None}

\* an optional key: absent, None, or the given value
Optional(k, v) == {<<>>, k :> None, k :> v}

OptionalWorkers == {<<>>, "num_workers" :> 16}

\* the keys __init__ indexes; dropout and loss_margin in tenths, lr in 1e-5
Required(bt, dim, p, lr, w, fb) ==
    [data_file |-> "data.h5", bert_type |-> bt, bert_dim |-> dim,
     dropout |-> p, lr |-> lr, loss_margin |-> 2, batch_size |-> 32,
     warmup_steps |-> w, freeze_bert |-> fb]

ModeKey == {<<>>} \cup {"training_mode" :> m : m \in TrainingModes}

\* every combination of the optional keys over one set of required values
DatasetBundles(req) ==
    {req @@ m @@ pw @@ pr @@ v @@ t @@ nw :
        m \in ModeKey,
        pw \in Optional("train_file_pointwise", "train_pointwise.h5"),
        pr \in Optional("train_file_pairwise", "train_pairwise.h5"),
        v \in Optional("val_file", "val.h5"),
        t \in Optional("test_file", "test.h5"),
        nw \in OptionalWorkers}

\* a bundle as the command line produces it for pairwise training
ValidBundle(req) ==
    req @@ [training_mode |-> "pairwise", train_file_pairwise |-> "train_pairwise.h5",
            val_file |-> "val.h5", num_workers |-> 16]

-----------------------------------------------------------------------------
(* Parameters of the module *)

EncParams == {"bert.embeddings", "bert.encoder"}

HeadParams == {"classification.weight", "classification.bias"}

ParamNames == EncParams \cup HeadParams

\* self.parameters(): registration order, dropout has none
Parameters ==
    <<"bert.embeddings", "bert.encoder", "classification.weight", "classification.bias">>

-----------------------------------------------------------------------------
(* __init__, lines 18-39 *)

\* the collaborator calls of __init__; each may raise
ExtSites == {"train", "val", "test", "harness", "encoder"}

Call(fn, line, args, ok) == [fn |-> fn, line |-> line, args |-> args, ok |-> ok]

Dataset(cls, args) == <<cls>> \o args

\* one dataset constructor call: its result, the call made, the error raised
Build(cls, line, args, raises) ==
    [ds |-> IF raises THEN NoneDs ELSE Dataset(cls, args),
     calls |-> <<Call(cls, line, args, ~raises)>>,
     err |-> IF raises THEN [kind |-> "DatasetError", line |-> line] ELSE NoError]

Skip == [ds |-> NoneDs, calls |-> <<>>, err |-> NoError]

Raise(err) == [ds |-> NoneDs, calls |-> <<>>, err |-> err]

\* the constructor chosen by which path is given, not by training_mode
SelectTrainByGivenPath(h, raises) ==
    IF Get(h, "train_file_pairwise") # None
    THEN Build("PairwiseTrainDataset", 23,
               <<h["data_file"], h["train_file_pairwise"], h["bert_type"]>>, raises)
    ELSE IF Get(h, "train_file_pointwise") # None
    THEN Build("PointwiseTrainDataset", 21,
               <<h["data_file"], h["train_file_pointwise"], h["bert_type"]>>, raises)
    ELSE Skip

\* `else` in place of `elif ... == 'pairwise'`
SelectTrainElsePairwise(h, raises) ==
    IF Get(h, "training_mode") = "pointwise"
    THEN IF Has(h, "train_file_pointwise")
         THEN Build("PointwiseTrainDataset", 21,
                    <<h["data_file"], h["train_file_pointwise"], h["bert_type"]>>, raises)
         ELSE Raise(KeyError(21))
    ELSE IF Has(h, "train_file_pairwise")
         THEN Build("PairwiseTrainDataset", 23,
                    <<h["data_file"], h["train_file_pairwise"], h["bert_type"]>>, raises)
         ELSE Raise(KeyError(23))

\* the path read with .get and the constructor skipped when it is None
SelectTrainIfPathGiven(h, raises) ==
    IF Get(h, "training_mode") = "pointwise" /\ Get(h, "train_file_pointwise") # None
    THEN Build("PointwiseTrainDataset", 21,
               <<h["data_file"], h["train_file_pointwise"], h["bert_type"]>>, raises)
    ELSE IF Get(h, "training_mode") = "pairwise" /\ Get(h, "train_file_pairwise") # None
    THEN Build("PairwiseTrainDataset", 23,
               <<h["data_file"], h["train_file_pairwise"], h["bert_type"]>>, raises)
    ELSE Skip

\* lines 19-23
SelectTrain(h, raises) ==
    IF Get(h, "training_mode") = "pointwise"
    THEN IF Has(h, "train_file_pointwise")
         THEN Build("PointwiseTrainDataset", 21,
                    <<h["data_file"], h["train_file_pointwise"], h["bert_type"]>>, raises)
         ELSE Raise(KeyError(21))
    ELSE IF Get(h, "training_mode") = "pairwise"
    THEN IF Has(h, "train_file_pairwise")
         THEN Build("PairwiseTrainDataset", 23,
                    <<h["data_file"], h["train_file_pairwise"], h["bert_type"]>>, raises)
         ELSE Raise(KeyError(23))
    ELSE Skip

\* `key in hparams` in place of `.get(key) is not None`
BuildEvalIfKeyPresent(h, key, line, raises) ==
    IF Has(h, key)
    THEN Build("ValTestDataset", line, <<h["data_file"], h[key], h["bert_type"]>>, raises)
    ELSE Skip

\* lines 24-26 and 27-29
BuildEval(h, key, line, raises) ==
    IF Get(h, key) # None
    THEN Build("ValTestDataset", line, <<h["data_file"], h[key], h["bert_type"]>>, raises)
    ELSE Skip

\* lines 31-32: the arguments of super().__init__
HarnessArgs(h, train_ds, val_ds, test_ds) ==
    [hparams |-> h, train_ds |-> train_ds, val_ds |-> val_ds, test_ds |-> test_ds,
     loss_margin |-> h["loss_margin"], batch_size |-> h["batch_size"],
     num_workers |-> Get(h, "num_workers")]

\* the flag cleared when freezing and otherwise left as loaded
EncoderFlagOnlyFreezes(h, loaded) == IF h["freeze_bert"] THEN FALSE ELSE loaded

\* lines 38-39: the flag every encoder parameter gets
EncoderFlag(h, loaded) == ~h["freeze_bert"]

\* requires_grad of every parameter after line 39
FlagsAfterInit(h, enc) ==
    [p \in ParamNames |->
        IF p \in EncParams THEN EncoderFlag(h, enc.requires_grad[p]) ELSE TRUE]

\* the result of running __init__ to its end or to the first exception
Aborted(cs, err) ==
    [calls |-> cs, err |-> err, harness |-> <<>>, bert |-> <<>>]

RunInit(h, raises, enc) ==
    LET t == SelectTrain(h, raises["train"]) IN
    IF t.err.kind # "none" THEN Aborted(t.calls, t.err) ELSE
    LET v == BuildEval(h, "val_file", 26, raises["val"])
        c2 == t.calls \o v.calls IN
    IF v.err.kind # "none" THEN Aborted(c2, v.err) ELSE
    LET s == BuildEval(h, "test_file", 29, raises["test"])
        c3 == c2 \o s.calls IN
    IF s.err.kind # "none" THEN Aborted(c3, s.err) ELSE
    LET c4 == Append(c3, Call("BaseRanker.__init__", 32, <<>>, ~raises["harness"])) IN
    IF raises["harness"] THEN Aborted(c4, [kind |-> "HarnessError", line |-> 32]) ELSE
    LET hn == <<HarnessArgs(h, t.ds, v.ds, s.ds)>>
        c5 == Append(c4, Call("BertModel.from_pretrained", 34,
                              <<h["bert_type"]>>, ~raises["encoder"])) IN
    IF raises["encoder"]
    THEN [calls |-> c5, err |-> [kind |-> "ResolutionError", line |-> 34],
          harness |-> hn, bert |-> <<>>]
    ELSE [calls |-> c5, err |-> NoError, harness |-> hn, bert |-> <<enc>>]

\* what from_pretrained may return: a hidden width and the flags it was saved with
Encoders ==
    [width : 1..MaxDim, requires_grad : [EncParams -> BOOLEAN]]

Construct ==
    /\ phase = "new"
    /\ \E raises \in [ExtSites -> BOOLEAN], enc \in Encoders :
        LET r == RunInit(hparams, raises, enc) IN
        /\ calls' = r.calls
        /\ error' = r.err
        /\ harness' = r.harness
        /\ bert' = r.bert
        /\ phase' = IF r.err.kind = "none" THEN "constructed" ELSE "failed"
        /\ requires_grad' =
              IF r.err.kind = "none" THEN FlagsAfterInit(hparams, enc) ELSE <<>>
        /\ weights' =
              IF r.err.kind = "none" THEN [p \in ParamNames |-> 0] ELSE <<>>
    /\ UNCHANGED <<hparams, training, rng, nextId, ret, live, lastFwd>>

\* number of scalars in a parameter tensor: Linear(bert_dim, 1) has a
\* bert_dim x 1 weight and one bias
Numel(p, h, enc) ==
    CASE p = "classification.weight" -> h["bert_dim"]
      [] p = "classification.bias" -> 1
      [] p = "bert.embeddings" -> enc.width
      [] p = "bert.encoder" -> enc.width * enc.width

RECURSIVE NumParams(_, _, _)
NumParams(ps, h, enc) ==
    IF ps = <<>> THEN 0 ELSE Numel(Head(ps), h, enc) + NumParams(Tail(ps), h, enc)

-----------------------------------------------------------------------------
(* configure_optimizers, lines 53-62 *)

\* every parameter handed over, trainable or not
AllParameters(flags) == Parameters

\* line 59: filter(lambda p: p.requires_grad, self.parameters())
ParamsWithGrad(flags) == SelectSeq(Parameters, LAMBDA p : flags[p])

\* line 60: AdamW(params_with_grad, lr=self.hparams['lr'])
NewOptimizer(id, h, flags) ==
    [id |-> id, cls |-> "AdamW", params |-> ParamsWithGrad(flags), base_lr |-> h["lr"]]

\* get_constant_schedule(opt): no warmup at all
NewSchedulerNoWarmup(id, opt, h) ==
    [id |-> id, optimizer |-> opt.id, num_warmup_steps |-> 0, last_epoch |-> 0]

\* line 61: get_constant_schedule_with_warmup(opt, self.hparams['warmup_steps'])
NewScheduler(id, opt, h) ==
    [id |-> id, optimizer |-> opt.id, num_warmup_steps |-> h["warmup_steps"],
     last_epoch |-> 0]

\* the descriptor with the scheduler stepped per epoch
DescriptorPerEpoch(sched) == [scheduler |-> sched, interval |-> "epoch"]

\* line 62: {'scheduler': sched, 'interval': 'step'}
Descriptor(sched) == [scheduler |-> sched, interval |-> "step"]

\* line 62: the returned pair of lists
Returned(opt, sched) == [optimizers |-> <<opt>>, schedulers |-> <<Descriptor(sched)>>]

\* lr_lambda of the schedule, as a fraction of the base rate:
\* step / max(1, warmup) below warmup, 1 from there on
LrLambda(step, warmup) ==
    IF step < warmup
    THEN [num |-> step, den |-> IF warmup > 1 THEN warmup ELSE 1]
    ELSE [num |-> 1, den |-> 1]

\* LambdaLR: the optimizer's rate is base_lr * lr_lambda(last_epoch)
ScheduledLr(base, step, warmup) ==
    [num |-> base * LrLambda(step, warmup).num, den |-> LrLambda(step, warmup).den]

Indices(seq) == 1..Len(seq)

\* the scheduler that drives optimizer `id`, if any
DriverOf(schedulers, id) ==
    {i \in Indices(schedulers) : schedulers[i].scheduler.optimizer = id}

\* each optimizer's current rate: set by its scheduler, else its base rate
Rates(optimizers, schedulers) ==
    [i \in Indices(optimizers) |->
        LET d == DriverOf(schedulers, optimizers[i].id) IN
        IF d = {} THEN [num |-> optimizers[i].base_lr, den |-> 1]
        ELSE LET sc == schedulers[CHOOSE k \in d : TRUE].scheduler IN
             ScheduledLr(optimizers[i].base_lr, sc.last_epoch, sc.num_warmup_steps)]

\* the trainer takes over what configure_optimizers returned
Adopt(r) ==
    [optimizers |-> r.optimizers, schedulers |-> r.schedulers,
     lr |-> Rates(r.optimizers, r.schedulers), steps |-> 0, epochs |-> 0]

\* scheduler.step() on every scheduler registered for `interval`
StepSchedulers(schedulers, interval) ==
    [i \in Indices(schedulers) |->
        IF schedulers[i].interval = interval
        THEN [schedulers[i] EXCEPT !.scheduler.last_epoch = @ + 1]
        ELSE schedulers[i]]

ConfigureOptimizers ==
    /\ phase = "constructed"
    /\ nextId < 2 * MaxConfigures
    /\ LET opt == NewOptimizer(nextId, hparams, requires_grad)
           sched == NewScheduler(nextId + 1, opt, hparams)
       IN /\ ret' = <<Returned(opt, sched)>>
          /\ live' = <<Adopt(Returned(opt, sched))>>
    /\ nextId' = nextId + 2
    /\ UNCHANGED <<hparams, phase, calls, error, harness, bert, requires_grad,
                   weights, training, rng, lastFwd>>

\* the parameters an optimizer step moves: those of an optimizer whose rate is not 0
Moved(l) ==
    {p \in ParamNames :
        \E i \in Indices(l.optimizers) :
            /\ l.lr[i].num > 0
            /\ \E k \in Indices(l.optimizers[i].params) : l.optimizers[i].params[k] = p}

\* one optimization step of the trainer: optimizer.step(), then the schedulers
\* registered per step
TrainingStep ==
    /\ phase = "constructed"
    /\ live # <<>>
    /\ live[1].steps < MaxSteps
    /\ weights' = [p \in ParamNames |->
                      IF p \in Moved(live[1]) THEN weights[p] + 1 ELSE weights[p]]
    /\ LET sc == StepSchedulers(live[1].schedulers, "step") IN
       live' = <<[live[1] EXCEPT !.schedulers = sc,
                                 !.lr = Rates(live[1].optimizers, sc),
                                 !.steps = @ + 1]>>
    /\ UNCHANGED <<hparams, phase, calls, error, harness, bert, requires_grad,
                   training, rng, nextId, ret, lastFwd>>

\* the end of an epoch: the schedulers registered per epoch are stepped
EpochEnd ==
    /\ phase = "constructed"
    /\ live # <<>>
    /\ live[1].epochs < MaxEpochs
    /\ LET sc == StepSchedulers(live[1].schedulers, "epoch") IN
       live' = <<[live[1] EXCEPT !.schedulers = sc,
                                 !.lr = Rates(live[1].optimizers, sc),
                                 !.epochs = @ + 1]>>
    /\ UNCHANGED <<hparams, phase, calls, error, harness, bert, requires_grad,
                   weights, training, rng, nextId, ret, lastFwd>>

-----------------------------------------------------------------------------
(* forward, lines 41-51 *)

Vocab == {101, 2023}

\* input_ids of shape (B, L); sequence position 0 is index 1
Batches ==
    {[b \in 1..B |-> [t \in 1..L |-> v]] :
        B \in 1..MaxBatch, L \in 1..MaxSeqLen, v \in Vocab}

\* self.bert(*batch)['last_hidden_state']: shape (B, L, width); in training
\* mode the encoder's own dropout draws from the generator
Encoder(batch, enc, w, train, r) ==
    [out |-> [b \in Indices(batch) |-> [t \in Indices(batch[b]) |-> [j \in 1..enc.width |->
                <<"h", batch[b], t, j, w["bert.embeddings"], w["bert.encoder"],
                  IF train THEN r + 1 ELSE 0>>]]],
     rng |-> IF train THEN (r + 1) % RngPeriod ELSE r]

\* [0]: the first example, shape (L, width)
ClsSliceFirstExample(hs) == hs[1]

\* line 50: [:, 0], shape (B, width)
ClsSlice(hs) == [b \in Indices(hs) |-> hs[b][1]]

\* the Bernoulli mask drawn in generator state r
Keep(r, b, j) == (r + b + j) % 2 = 0

Masked(x, r) ==
    [out |-> [b \in Indices(x) |-> [j \in Indices(x[b]) |->
                IF Keep(r, b, j) THEN <<"scaled", x[b][j]>> ELSE <<"zero">>]],
     rng |-> (r + 1) % RngPeriod]

\* F.dropout(x, p, training=True): the mask applied in evaluation mode too
DropoutIgnoringMode(x, p, train, r) ==
    IF p > 0 THEN Masked(x, r) ELSE [out |-> x, rng |-> r]

\* line 51: self.dropout, torch.nn.Dropout(p): the identity in evaluation mode
Dropout(x, p, train, r) ==
    IF train /\ p > 0 THEN Masked(x, r) ELSE [out |-> x, rng |-> r]

\* line 51: self.classification, torch.nn.Linear(in_features, 1)
Linear(x, in_features, w) ==
    IF \E b \in Indices(x) : Len(x[b]) # in_features
    THEN [out |-> <<>>, err |-> "shape mismatch"]
    ELSE [out |-> [b \in Indices(x) |->
                     << <<"affine", w["classification.weight"],
                          w["classification.bias"], x[b]>> >>],
          err |-> "none"]

RunForward(batch, h, enc, w, train, r) ==
    LET e == Encoder(batch, enc, w, train, r)
        d == Dropout(ClsSlice(e.out), h["dropout"], train, e.rng)
        y == Linear(d.out, h["bert_dim"], w)
    IN [out |-> y.out, err |-> y.err, rng |-> d.rng]

\* one call of forward on a batch of the set S
ForwardOn(S) ==
    /\ phase = "constructed"
    /\ \E batch \in S :
        LET r == RunForward(batch, hparams, bert[1], weights, training, rng) IN
        /\ lastFwd' = <<[batch |-> batch, training |-> training, wts |-> weights,
                         prev_training |-> lastFwd # <<>> /\ lastFwd[1].training,
                         out |-> r.out, err |-> r.err,
                         repeat |-> /\ lastFwd # <<>>
                                    /\ lastFwd[1].batch = batch
                                    /\ lastFwd[1].wts = weights]>>
        /\ rng' = r.rng
    /\ UNCHANGED <<hparams, phase, calls, error, harness, bert, requires_grad,
                   weights, training, nextId, ret, live>>

Forward == ForwardOn(Batches)

\* three fixed batches: two of one example, one of two
Probes == {<< <<101>> >>, << <<2023>> >>, << <<101>>, <<2023>> >>}

ForwardProbe == ForwardOn(Probes)

\* nn.Module.train() / .eval(), called by the trainer around validation
SetTraining ==
    /\ phase = "constructed"
    /\ training' = ~training
    /\ UNCHANGED <<hparams, phase, calls, error, harness, bert, requires_grad,
                   weights, rng, nextId, ret, live, lastFwd>>

-----------------------------------------------------------------------------
(* Specifications *)

Blank ==
    /\ phase = "new"
    /\ calls = <<>>
    /\ error = NoError
    /\ harness = <<>>
    /\ bert = <<>>
    /\ requires_grad = <<>>
    /\ weights = <<>>
    /\ training = TRUE
    /\ rng = 0
    /\ nextId = 1
    /\ ret = <<>>
    /\ live = <<>>
    /\ lastFwd = <<>>

\* construction over every combination of the optional keys
Init ==
    /\ hparams \in DatasetBundles(Required("bert-base-uncased", 1, 1, 3, 1, FALSE))
    /\ Blank

Next == Construct

Spec == Init /\ [][Next]_vars

\* construction and training setup over freeze_bert, lr and warmup_steps
InitOpt ==
    /\ hparams \in {ValidBundle(Required("bert-base-uncased", dim, 1, lr, w, fb)) :
                      dim \in 1..MaxDim, lr \in {3, 5}, w \in 0..MaxWarmup,
                      fb \in BOOLEAN}
    /\ Blank

NextOpt == Construct \/ ConfigureOptimizers \/ TrainingStep \/ EpochEnd

SpecOpt == InitOpt /\ [][NextOpt]_vars

\* a constructed ranker: the state __init__ leaves when no collaborator raises
\* and the pretrained encoder has the given width and all its flags set
Pretrained(width) == [width |-> width, requires_grad |-> [p \in EncParams |-> TRUE]]

Constructed(h, width) ==
    LET r == RunInit(h, [s \in ExtSites |-> FALSE], Pretrained(width)) IN
    /\ hparams = h
    /\ phase = "constructed"
    /\ calls = r.calls
    /\ error = r.err
    /\ harness = r.harness
    /\ bert = r.bert
    /\ requires_grad = FlagsAfterInit(h, Pretrained(width))
    /\ weights = [q \in ParamNames |-> 0]
    /\ training = TRUE
    /\ rng = 0
    /\ nextId = 1
    /\ ret = <<>>
    /\ live = <<>>
    /\ lastFwd = <<>>

\* dropout: the default 0.1, and 0
DropoutRates == <<1, 0>>

\* forward over every batch shape, bert_dim and encoder width
InitFwd ==
    \E dim \in 1..MaxDim, width \in 1..MaxDim, i \in Indices(DropoutRates) :
        Constructed(ValidBundle(Required("bert-base-uncased", dim, DropoutRates[i],
                                         3, 0, FALSE)), width)

NextFwd == SetTraining \/ Forward

SpecFwd == InitFwd /\ [][NextFwd]_vars

\* repeated forward calls between optimizer steps and mode switches, with the
\* default dropout of 0.1
InitPure ==
    \E lr \in {3, 5}, fb \in BOOLEAN :
        Constructed(ValidBundle(Required("bert-base-uncased", MaxDim, 1, lr, 0, fb)),
                    MaxDim)

NextPure == SetTraining \/ ConfigureOptimizers \/ TrainingStep \/ ForwardProbe

SpecPure == InitPure /\ [][NextPure]_vars

-----------------------------------------------------------------------------
(* Construction: which collaborators __init__ calls *)

Finished == phase \in {"constructed", "failed"}

Mode == Get(hparams, "training_mode")

CallsTo(fn) == SelectSeq(calls, LAMBDA c : c.fn = fn)

CallsAt(line) == SelectSeq(calls, LAMBDA c : c.line = line)

TrainArgs(key) == <<hparams["data_file"], hparams[key], hparams["bert_type"]>>

\* C1: with training_mode = pointwise and a pointwise path set, __init__ calls
\* PointwiseTrainDataset(data_file, train_file_pointwise, bert_type) and never
\* PairwiseTrainDataset, whatever train_file_pairwise is; with training_mode =
\* pairwise and a pairwise path set it calls PairwiseTrainDataset likewise and
\* never PointwiseTrainDataset.
C1_ModeSelectsTrainConstructor ==
    Finished =>
        /\ (Mode = "pointwise" /\ Get(hparams, "train_file_pointwise") # None) =>
              /\ Len(CallsTo("PointwiseTrainDataset")) = 1
              /\ calls[1].fn = "PointwiseTrainDataset"
              /\ calls[1].args = TrainArgs("train_file_pointwise")
              /\ CallsTo("PairwiseTrainDataset") = <<>>
        /\ (Mode = "pairwise" /\ Get(hparams, "train_file_pairwise") # None) =>
              /\ Len(CallsTo("PairwiseTrainDataset")) = 1
              /\ calls[1].fn = "PairwiseTrainDataset"
              /\ calls[1].args = TrainArgs("train_file_pairwise")
              /\ CallsTo("PointwiseTrainDataset") = <<>>

\* pointwise mode with both training paths set, construction completed
C1_Witness ==
    /\ phase = "constructed"
    /\ Mode = "pointwise"
    /\ Get(hparams, "train_file_pointwise") # None
    /\ Get(hparams, "train_file_pairwise") # None
    /\ harness[1].train_ds = Dataset("PointwiseTrainDataset", TrainArgs("train_file_pointwise"))

Unsupported == Mode \notin {"pointwise", "pairwise", None}

\* C2 as stated: with an unsupported training_mode construction fails with a
\* ConfigurationError before any dataset constructor, the harness initializer
\* or the encoder loader is called.
C2_UnsupportedModeFails ==
    (Finished /\ Unsupported) =>
        /\ phase = "failed"
        /\ error.kind = "ConfigurationError"
        /\ calls = <<>>

\* C2 amended: with an unsupported training_mode __init__ raises nothing at the
\* mode selection and calls no training dataset constructor; the validation and
\* test datasets are built as for any mode, the harness initializer receives
\* train_ds = None, and construction completes whenever no collaborator raises.
C2_UnsupportedModeBuildsNoTrainDataset ==
    (Finished /\ Unsupported) =>
        /\ error.kind # "ConfigurationError"
        /\ error.line \notin {21, 23}
        /\ CallsTo("PointwiseTrainDataset") = <<>>
        /\ CallsTo("PairwiseTrainDataset") = <<>>
        /\ harness # <<>> => harness[1].train_ds = NoneDs
        /\ (\A i \in 1..Len(calls) : calls[i].ok) =>
              /\ phase = "constructed"
              /\ Len(CallsTo("BaseRanker.__init__")) = 1
              /\ Len(CallsTo("BertModel.from_pretrained")) = 1

\* training_mode = "listwise": construction completed with no training dataset
C2_Witness ==
    /\ phase = "constructed"
    /\ Mode = "listwise"
    /\ harness[1].train_ds = NoneDs
    /\ bert # <<>>

\* the training path key the selected mode reads
ModePathKey ==
    IF Mode = "pointwise" THEN "train_file_pointwise" ELSE "train_file_pairwise"

ModeLine == IF Mode = "pointwise" THEN 21 ELSE 23

ModeClass ==
    IF Mode = "pointwise" THEN "PointwiseTrainDataset" ELSE "PairwiseTrainDataset"

MissingTrainPath ==
    /\ Mode \in {"pointwise", "pairwise"}
    /\ Get(hparams, ModePathKey) = None

\* C3 as stated: when the path of the selected mode is absent or None,
\* construction fails with a configuration error raised by __init__ itself
\* (the KeyError of an absent key is counted as one), builds no training
\* dataset and reaches neither the harness initializer nor the encoder loader.
C3_MissingPathFails ==
    (Finished /\ MissingTrainPath) =>
        /\ phase = "failed"
        /\ error.kind \in {"ConfigurationError", "KeyError"}
        /\ CallsTo(ModeClass) = <<>>
        /\ harness = <<>>
        /\ bert = <<>>

\* C3 amended: when the key of the selected mode is absent, __init__ fails with
\* a KeyError at the constructor call's argument list, before any collaborator
\* is called; when the key is present with value None, __init__ checks nothing
\* and calls the mode's constructor with (data_file, None, bert_type), and
\* fails only if that constructor (or a later collaborator) raises.
C3_MissingPathKeyErrorOrPassedOn ==
    (Finished /\ MissingTrainPath) =>
        IF ~Has(hparams, ModePathKey)
        THEN /\ phase = "failed"
             /\ error = KeyError(ModeLine)
             /\ calls = <<>>
             /\ harness = <<>>
             /\ bert = <<>>
        ELSE /\ Len(calls) >= 1
             /\ calls[1].fn = ModeClass
             /\ calls[1].args = <<hparams["data_file"], None, hparams["bert_type"]>>
             /\ Len(CallsTo(ModeClass)) = 1
             /\ error.kind \notin {"KeyError", "ConfigurationError"}
             /\ ~calls[1].ok => (phase = "failed" /\ Len(calls) = 1 /\ harness = <<>>)
             /\ (\A i \in 1..Len(calls) : calls[i].ok) => phase = "constructed"

\* pairwise mode, train_file_pairwise: None: the constructor was called with None
C3_Witness ==
    /\ Finished
    /\ Mode = "pairwise"
    /\ Has(hparams, "train_file_pairwise")
    /\ hparams["train_file_pairwise"] = None
    /\ Len(calls) >= 1
    /\ calls[1].fn = "PairwiseTrainDataset"
    /\ calls[1].args[2] = None

EvalArgs(key) == <<hparams["data_file"], hparams[key], hparams["bert_type"]>>

\* what __init__ does with one optional evaluation file, given that no
\* statement before line `line` raised
EvalHandled(key, line, field, before) ==
    IF Get(hparams, key) = None
    THEN /\ CallsAt(line) = <<>>
         /\ error.line # line
         /\ harness # <<>> => harness[1][field] = NoneDs
    ELSE error.line \notin before =>
         /\ Len(CallsAt(line)) = 1
         /\ CallsAt(line)[1].fn = "ValTestDataset"
         /\ CallsAt(line)[1].args = EvalArgs(key)
         /\ harness # <<>> =>
               harness[1][field] = Dataset("ValTestDataset", EvalArgs(key))

\* C4: for every training_mode, an omitted val_file (absent or None) makes
\* __init__ call no ValTestDataset for validation, raise nothing there and
\* hand None to the harness; a given val_file makes it call
\* ValTestDataset(data_file, val_file, bert_type) exactly once when control
\* reaches line 25; likewise and independently for test_file.
C4_EvalDatasetsOnlyWhenGiven ==
    Finished =>
        /\ EvalHandled("val_file", 26, "val_ds", {21, 23})
        /\ EvalHandled("test_file", 29, "test_ds", {21, 23, 26})
        /\ Len(CallsTo("ValTestDataset")) = Len(CallsAt(26)) + Len(CallsAt(29))

\* no training_mode at all, val_file given and test_file omitted
C4_Witness ==
    /\ phase = "constructed"
    /\ Mode = None
    /\ Get(hparams, "val_file") # None
    /\ Get(hparams, "test_file") = None
    /\ harness[1].val_ds = Dataset("ValTestDataset", EvalArgs("val_file"))
    /\ harness[1].test_ds = NoneDs
    /\ CallsAt(29) = <<>>

-----------------------------------------------------------------------------
(* configure_optimizers: what the optimizer and the scheduler get *)

Elements(seq) == {seq[i] : i \in Indices(seq)}

\* the parameters handed to the optimizer of the last call
OptParams == ret[1].optimizers[1].params

\* C5: with freeze_bert = true the optimizer gets no encoder parameter and
\* every classification-head parameter, each once, so its parameter count is
\* exactly the head's (bert_dim weights and one bias).
C5_FrozenEncoderLeavesHeadOnly ==
    (ret # <<>> /\ hparams["freeze_bert"]) =>
        /\ Elements(OptParams) \cap EncParams = {}
        /\ HeadParams \subseteq Elements(OptParams)
        /\ Len(OptParams) = Cardinality(HeadParams)
        /\ NumParams(OptParams, hparams, bert[1]) = hparams["bert_dim"] + 1

\* freeze_bert = true over an encoder loaded with a trainable parameter
C5_Witness ==
    /\ ret # <<>>
    /\ hparams["freeze_bert"]
    /\ bert[1].requires_grad["bert.encoder"]
    /\ OptParams = <<"classification.weight", "classification.bias">>

\* C6: with freeze_bert = false the optimizer gets every encoder parameter and
\* every head parameter, each once, also the encoder parameters that were
\* loaded with requires_grad = False: its count is the encoder's plus the head's.
C6_UnfrozenEncoderAllParameters ==
    (ret # <<>> /\ ~hparams["freeze_bert"]) =>
        /\ Elements(OptParams) = EncParams \cup HeadParams
        /\ Len(OptParams) = Cardinality(EncParams) + Cardinality(HeadParams)
        /\ NumParams(OptParams, hparams, bert[1]) =
              bert[1].width + bert[1].width * bert[1].width + hparams["bert_dim"] + 1

\* freeze_bert = false over an encoder loaded with a frozen parameter
C6_Witness ==
    /\ ret # <<>>
    /\ ~hparams["freeze_bert"]
    /\ ~bert[1].requires_grad["bert.encoder"]
    /\ Len(OptParams) = Cardinality(ParamNames)

\* C7: after k scheduler steps the optimizer's rate is lr * k / warmup_steps
\* while k < warmup_steps (0 at k = 0) and exactly lr from k = warmup_steps on;
\* with warmup_steps = 0 it is lr from the start.
C7_LinearWarmupThenConstant ==
    live # <<>> =>
        LET k == live[1].schedulers[1].scheduler.last_epoch
            w == hparams["warmup_steps"]
            rate == live[1].lr[1]
        IN /\ rate.den > 0
           /\ k < w => rate.num * w = hparams["lr"] * k * rate.den
           /\ (k < w /\ k > 0) => (rate.num > 0 /\ rate.num < hparams["lr"] * rate.den)
           /\ (k = 0 /\ w > 0) => rate.num = 0
           /\ k >= w => rate.num = hparams["lr"] * rate.den

\* half-way through a warmup of two steps: the rate is lr / 2
C7_Witness ==
    /\ live # <<>>
    /\ hparams["warmup_steps"] = 2
    /\ live[1].schedulers[1].scheduler.last_epoch = 1
    /\ live[1].lr[1] = [num |-> hparams["lr"], den |-> 2]

\* C8: every call returns one AdamW optimizer with lr = hparams['lr'] and one
\* scheduler descriptor whose scheduler is bound to that optimizer and whose
\* interval is 'step'; the trainer therefore steps the schedule once per
\* optimization step and never at the end of an epoch.
C8_OneOptimizerOneStepScheduler ==
    ret # <<>> =>
        /\ Len(ret[1].optimizers) = 1
        /\ ret[1].optimizers[1].cls = "AdamW"
        /\ ret[1].optimizers[1].base_lr = hparams["lr"]
        /\ Len(ret[1].schedulers) = 1
        /\ ret[1].schedulers[1].interval = "step"
        /\ ret[1].schedulers[1].scheduler.optimizer = ret[1].optimizers[1].id
        /\ ret[1].schedulers[1].scheduler.id # ret[1].optimizers[1].id
        /\ live[1].schedulers[1].scheduler.last_epoch = live[1].steps

\* the second call's objects after one optimization step and one epoch end
C8_Witness ==
    /\ ret # <<>>
    /\ ret[1].optimizers[1].id = 3
    /\ live[1].steps = 1
    /\ live[1].epochs = 1
    /\ live[1].schedulers[1].scheduler.last_epoch = 1

-----------------------------------------------------------------------------
(* forward: the shape of the scores and their dependence on the module state *)

\* the activation a dropout output element carries
Core(e) == IF e[1] = "scaled" THEN e[2] ELSE e

\* C9: for every batch size B and sequence length L, forward on an encoder
\* whose hidden width is bert_dim returns B rows of one score; row b is the
\* linear projection of the dropout of the bert_dim activations of the last
\* hidden layer at sequence position 0 of example b.
C9_ForwardShape ==
    (lastFwd # <<>> /\ bert[1].width = hparams["bert_dim"]) =>
        LET f == lastFwd[1] IN
        /\ f.err = "none"
        /\ Len(f.out) = Len(f.batch)
        /\ \A b \in Indices(f.out) :
              /\ Len(f.out[b]) = 1
              /\ f.out[b][1][1] = "affine"
              /\ Len(f.out[b][1][4]) = hparams["bert_dim"]
              /\ \A j \in Indices(f.out[b][1][4]) :
                    LET e == f.out[b][1][4][j] IN
                    \/ e = <<"zero">>
                    \/ /\ Core(e)[1] = "h"
                       /\ Core(e)[2] = f.batch[b]
                       /\ Core(e)[3] = 1
                       /\ Core(e)[4] = j

\* two examples of one token, in training mode with dropout
C9_Witness ==
    /\ lastFwd # <<>>
    /\ Len(lastFwd[1].batch) = 2
    /\ Len(lastFwd[1].batch[1]) = 1
    /\ lastFwd[1].training
    /\ hparams["dropout"] > 0
    /\ lastFwd[1].err = "none"
    /\ Len(lastFwd[1].out) = 2

\* a step that is a call of forward
ForwardStep == lastFwd' # lastFwd

\* C10 as stated: a call of forward changes neither the parameters, their
\* flags nor the hyperparameters, and in every module state a call with the
\* batch and parameter values of the previous call returns the same scores.
C10_ForwardPure ==
    [][ForwardStep =>
          /\ UNCHANGED <<weights, requires_grad, hparams>>
          /\ lastFwd'[1].repeat => lastFwd'[1].out = lastFwd[1].out]_vars

\* C10 amended: a call of forward changes neither the parameters, their flags
\* nor the hyperparameters; a call with the batch and parameter values of the
\* previous call returns the same scores when both calls run in evaluation
\* mode. In training mode the scores depend on the dropout masks drawn from
\* torch's generator, which the call advances.
C10_ForwardPureInEvalMode ==
    [][ForwardStep =>
          /\ UNCHANGED <<weights, requires_grad, hparams>>
          /\ (lastFwd'[1].repeat /\ ~lastFwd'[1].training /\ ~lastFwd'[1].prev_training)
                => lastFwd'[1].out = lastFwd[1].out]_vars

\* a repeated call in evaluation mode, dropout rate > 0, after an optimizer step
C10_Witness ==
    /\ lastFwd # <<>>
    /\ lastFwd[1].repeat
    /\ ~lastFwd[1].training
    /\ ~lastFwd[1].prev_training
    /\ hparams["dropout"] > 0
    /\ weights["classification.weight"] > 0

====
